---- MODULE Spec2Model ----
(***************************************************************************)
(* Game-state core of the Mini FPS block (src/src/block.tsx).              *)
(*                                                                         *)
(* React state is modelled by two copies.  gameState and hit are the       *)
(* latest values: the result of applying, in order, every functional       *)
(* updater passed to setGameState / setHit so far.  rendered and           *)
(* renderedHit are the values of the last render, which is what the        *)
(* closures created by that render (shoot, Enemy.handleClick, the mounted  *)
(* Bullet components, the completion effect's dependency) read.  A render  *)
(* is a step of its own: it copies the latest value into the rendered one, *)
(* mounts and unmounts Bullet components and runs the completion effect.   *)
(*                                                                         *)
(* Space is one axis: the camera's line of sight.  Positions are integers  *)
(* on it, the firing direction is the unit vector -1 (the camera looks     *)
(* down the negative axis), frame deltas are whole seconds.                *)
(***************************************************************************)
EXTENDS Integers, Sequences, FiniteSets

VARIABLES
    gameStarted,      \* Block: useState(false)
    gameState,        \* Block: useState<GameState>, latest value
    rendered,         \* the GameState of the last render
    bulletIdCounter,  \* GameScene: useRef(0)
    meshPos,          \* Bullet: meshRef.current.position, per mounted bullet id
    hit,              \* Enemy: useState(false), latest value, per enemy
    renderedHit,      \* the hit value of each Enemy's last render
    timers,           \* Enemy: pending setTimeout callbacks, per enemy
    completions       \* how many times the completion effect has posted

vars == <<gameStarted, gameState, rendered, bulletIdCounter, meshPos,
          hit, renderedHit, timers, completions>>

----------------------------------------------------------------------------
(* Program constants *)

MaxAmmo == 30
speed == 50
maxDistance == 100
HitScore == 10
CompletionScore == 50
cameraPosition == 0

(* Bounds of the model *)

\* shots fired, expired, removed and rendered before the modelled window
PriorShots == 29
\* projectiles created inside the modelled window
MaxShots == 2
\* longest frame delta, in seconds
MaxDelta == 2
\* frames stop once a mounted projectile has travelled further than this
MaxTravel == 150
\* number of targets of the preset list that are modelled
NumEnemies == 1
\* accepted hits inside the modelled window
MaxHits == 2

----------------------------------------------------------------------------
(* Helpers *)

Range(s) == {s[i] : i \in 1..Len(s)}

Ids(bs) == {bs[i].id : i \in 1..Len(bs)}

Abs(x) == IF x < 0 THEN -x ELSE x

\* THREE.Vector3.distanceTo on the line of sight
Distance(a, b) == Abs(a - b)

enemies == 1..NumEnemies

\* (0, 0, -1) turned by camera.quaternion and normalised: the unit vector
\* along the line of sight
Directions == {-1}

KeyCodes == {"KeyR", "KeyW"}

Deltas == 1..MaxDelta

ShotsFired ==
    IF bulletIdCounter >= PriorShots THEN bulletIdCounter - PriorShots
    ELSE bulletIdCounter

\* the score of a session that is one hit short of completion
LateScore == CompletionScore - HitScore

HitsScored ==
    IF gameState.score >= LateScore THEN (gameState.score - LateScore) \div HitScore
    ELSE gameState.score \div HitScore

----------------------------------------------------------------------------
(* Initial states *)

InitialGameState == [score |-> 0, ammo |-> MaxAmmo, bullets |-> <<>>]

\* The state after construction: the start screen is showing.
InitFresh ==
    /\ gameStarted = FALSE
    /\ gameState = InitialGameState
    /\ bulletIdCounter = 0

\* A running session in which PriorShots projectiles were fired and have all
\* flown out of range, been removed and been rendered away, no reload was
\* made, and the hits scored so far (their cooldowns expired) leave the score
\* one hit short of completion.
InitLate ==
    /\ gameStarted = TRUE
    /\ gameState = [InitialGameState EXCEPT !.ammo = MaxAmmo - PriorShots,
                                            !.score = LateScore]
    /\ bulletIdCounter = PriorShots

Init ==
    /\ InitFresh \/ InitLate
    /\ rendered = gameState
    /\ meshPos = [id \in {} |-> cameraPosition]
    /\ hit = [e \in enemies |-> FALSE]
    /\ renderedHit = [e \in enemies |-> FALSE]
    /\ timers = [e \in enemies |-> 0]
    /\ completions = 0

----------------------------------------------------------------------------
(* Start screen *)

startGame ==
    /\ ~gameStarted
    /\ gameStarted' = TRUE
    /\ UNCHANGED <<gameState, rendered, bulletIdCounter, meshPos,
                   hit, renderedHit, timers, completions>>

----------------------------------------------------------------------------
(* GameScene: shoot, reload, removeBullet, handleEnemyHit and the listeners *)

newBullet(direction) ==
    [id |-> bulletIdCounter, position |-> cameraPosition, direction |-> direction]

\* shoot with the `++` of the id counter lost
shootSameId(direction) ==
    IF rendered.ammo <= 0
    THEN UNCHANGED <<gameState, bulletIdCounter>>
    ELSE /\ ShotsFired < MaxShots
         /\ gameState' = [gameState EXCEPT
                              !.ammo = @ - 1,
                              !.bullets = Append(@, newBullet(direction))]
         /\ bulletIdCounter' = bulletIdCounter

\* The guard reads the ammo of the render that created this callback; the two
\* updaters apply to the latest state.
shoot(direction) ==
    IF rendered.ammo <= 0
    THEN UNCHANGED <<gameState, bulletIdCounter>>
    ELSE /\ ShotsFired < MaxShots
         /\ gameState' = [gameState EXCEPT
                              !.ammo = @ - 1,
                              !.bullets = Append(@, newBullet(direction))]
         /\ bulletIdCounter' = bulletIdCounter + 1

\* removeBullet with the filter's test inverted
removeBulletKeepOnly(prev, bulletId) ==
    [prev EXCEPT !.bullets = SelectSeq(@, LAMBDA bullet : bullet.id = bulletId)]

removeBullet(prev, bulletId) ==
    [prev EXCEPT !.bullets = SelectSeq(@, LAMBDA bullet : bullet.id # bulletId)]

handleEnemyHit(prev, enemyId) ==
    [prev EXCEPT !.score = @ + HitScore]

\* reload that adds a magazine instead of setting it
reloadAdditive ==
    /\ gameState' = [gameState EXCEPT !.ammo = @ + MaxAmmo]
    /\ UNCHANGED bulletIdCounter

reload ==
    /\ gameState' = [gameState EXCEPT !.ammo = MaxAmmo]
    /\ UNCHANGED bulletIdCounter

\* window 'click' listener; pointerLocked is
\* document.pointerLockElement === gl.domElement
handleClick(pointerLocked, direction) ==
    /\ gameStarted
    /\ IF pointerLocked
       THEN shoot(direction)
       ELSE UNCHANGED <<gameState, bulletIdCounter>>
    /\ UNCHANGED <<gameStarted, rendered, meshPos, hit, renderedHit, timers,
                   completions>>

\* window 'keydown' listener
handleKeyPress(code) ==
    /\ gameStarted
    /\ IF code = "KeyR"
       THEN reload
       ELSE UNCHANGED <<gameState, bulletIdCounter>>
    /\ UNCHANGED <<gameStarted, rendered, meshPos, hit, renderedHit, timers,
                   completions>>

----------------------------------------------------------------------------
(* Bullet: the per-frame callback of every mounted Bullet *)

\* meshRef.current.position.add(direction.clone().multiplyScalar(speed * delta))
moved(bullet, delta) ==
    meshPos[bullet.id] + bullet.direction * (speed * delta)

\* the range test with >= in place of >
outOfRangeInclusive(position, startPosition) ==
    Distance(position, startPosition) >= maxDistance

\* meshRef.current.position.distanceTo(startPosition) > maxDistance
outOfRange(position, startPosition) ==
    Distance(position, startPosition) > maxDistance

\* The callbacks of the mounted bullets run in mount order; each one whose
\* mesh is out of range calls onRemove, that is removeBullet(bullet.id).
RECURSIVE frameRemovals(_, _, _)
frameRemovals(prev, mounted, delta) ==
    IF mounted = <<>> THEN prev
    ELSE LET bullet == Head(mounted)
             next == IF outOfRange(moved(bullet, delta), bullet.position)
                     THEN removeBullet(prev, bullet.id)
                     ELSE prev
         IN  frameRemovals(next, Tail(mounted), delta)

Bullet_useFrame(delta) ==
    /\ gameStarted
    /\ \A bullet \in Range(rendered.bullets) :
           Distance(meshPos[bullet.id], bullet.position) <= MaxTravel
    /\ meshPos' = [id \in DOMAIN meshPos |->
                      LET bullet == CHOOSE b \in Range(rendered.bullets) : b.id = id
                      IN  moved(bullet, delta)]
    /\ gameState' = frameRemovals(gameState, rendered.bullets, delta)
    /\ UNCHANGED <<gameStarted, rendered, bulletIdCounter, hit, renderedHit,
                   timers, completions>>

----------------------------------------------------------------------------
(* Enemy: pick handler and cooldown timer *)

\* The guard reads the hit value of the render that created this handler.
Enemy_handleClick(id) ==
    /\ gameStarted
    /\ HitsScored < MaxHits
    /\ IF ~renderedHit[id]
       THEN /\ hit' = [hit EXCEPT ![id] = TRUE]
            /\ gameState' = handleEnemyHit(gameState, id)
            /\ timers' = [timers EXCEPT ![id] = @ + 1]
       ELSE UNCHANGED <<hit, gameState, timers>>
    /\ UNCHANGED <<gameStarted, rendered, bulletIdCounter, meshPos,
                   renderedHit, completions>>

\* a timer callback that does not clear hit
Enemy_timeoutKeepsHit(id) ==
    /\ timers[id] > 0
    /\ timers' = [timers EXCEPT ![id] = @ - 1]
    /\ UNCHANGED <<gameStarted, gameState, rendered, bulletIdCounter, meshPos,
                   hit, renderedHit, completions>>

\* the setTimeout callback: setHit(false)
Enemy_timeout(id) ==
    /\ timers[id] > 0
    /\ timers' = [timers EXCEPT ![id] = @ - 1]
    /\ hit' = [hit EXCEPT ![id] = FALSE]
    /\ UNCHANGED <<gameStarted, gameState, rendered, bulletIdCounter, meshPos,
                   renderedHit, completions>>

----------------------------------------------------------------------------
(* Renders *)

\* Block's effect on [gameState.score]: runs when the rendered score changed.
completionEffect(previousScore, score, posted) ==
    IF score # previousScore /\ score >= CompletionScore
    THEN posted + 1
    ELSE posted

\* Block and GameScene re-render with the latest gameState: callbacks are
\* recreated, Bullet components are mounted and unmounted by key, and the
\* completion effect runs.
render ==
    /\ rendered # gameState
    /\ rendered' = gameState
    /\ meshPos' = [id \in Ids(gameState.bullets) |->
                      IF id \in DOMAIN meshPos
                      THEN meshPos[id]
                      ELSE (CHOOSE b \in Range(gameState.bullets) : b.id = id).position]
    /\ completions' = completionEffect(rendered.score, gameState.score, completions)
    /\ UNCHANGED <<gameStarted, gameState, bulletIdCounter, hit, renderedHit,
                   timers>>

\* One Enemy re-renders with its latest hit value.
Enemy_render(id) ==
    /\ renderedHit[id] # hit[id]
    /\ renderedHit' = [renderedHit EXCEPT ![id] = hit[id]]
    /\ UNCHANGED <<gameStarted, gameState, rendered, bulletIdCounter, meshPos,
                   hit, timers, completions>>

----------------------------------------------------------------------------
(* Specifications *)

Next ==
    \/ startGame
    \/ \E pointerLocked \in BOOLEAN, direction \in Directions :
           handleClick(pointerLocked, direction)
    \/ \E code \in KeyCodes : handleKeyPress(code)
    \/ \E delta \in Deltas : Bullet_useFrame(delta)
    \/ \E id \in enemies : Enemy_handleClick(id)
    \/ \E id \in enemies : Enemy_timeout(id)
    \/ \E id \in enemies : Enemy_render(id)
    \/ render

Spec == Init /\ [][Next]_vars

\* Timers fire and scheduled renders happen.
FairSpec ==
    /\ Spec
    /\ \A id \in enemies : WF_vars(Enemy_timeout(id))
    /\ \A id \in enemies : WF_vars(Enemy_render(id))
    /\ WF_vars(render)

----------------------------------------------------------------------------
(* Steps named by the claims *)

\* a click while the pointer is locked: the listener calls shoot()
ShootInput == \E direction \in Directions : handleClick(TRUE, direction)

\* a keydown of R: the listener calls reload()
ReloadInput == handleKeyPress("KeyR")

Travel(bullet) == Distance(meshPos[bullet.id], bullet.position)

----------------------------------------------------------------------------
(* Claims *)

\* C1: in every reachable state 0 <= ammo <= 30, whatever the interleaving of
\* shoot and reload inputs, frames, removals, hits, cooldown expiries and
\* renders.
AmmoInRange == 0 <= gameState.ammo /\ gameState.ammo <= MaxAmmo

\* C2: the completion notification is posted exactly once per session: once
\* when the score first reaches 50 and never again on a later increase.
\* Stated for the states in which every target has exactly its own cooldown
\* timer pending, so that the hits counted are debounced ones.
CompletionOnce ==
    (\A id \in enemies : timers[id] = IF hit[id] THEN 1 ELSE 0)
        => completions = IF rendered.score >= CompletionScore THEN 1 ELSE 0

\* C3: a pick on an Idle target adds exactly 10 to the score and puts the
\* target in HitCooldown; a pick on a target in HitCooldown (before its
\* cooldown expiry) leaves the score unchanged.
HitDebounced ==
    [][\A id \in enemies :
          Enemy_handleClick(id) =>
              IF hit[id]
              THEN gameState'.score = gameState.score
              ELSE /\ gameState'.score = gameState.score + HitScore
                   /\ hit'[id]]_vars

\* C4: a shoot input when ammo = 0 changes nothing: score, ammo, projectile
\* list, hit states and the id counter stay as they are.
ShootEmptyNoOp ==
    [][ShootInput /\ gameState.ammo = 0 =>
          UNCHANGED <<gameState, bulletIdCounter, hit>>]_vars

\* C5: a shoot input when ammo > 0 takes exactly one round and appends exactly
\* one projectile at the end of the list, score and earlier projectiles
\* unchanged; a shoot input when ammo = 0 (the 31st of a full magazine)
\* changes nothing.
ShootFiresOne ==
    [][ShootInput =>
          IF gameState.ammo > 0
          THEN /\ gameState'.ammo = gameState.ammo - 1
               /\ Len(gameState'.bullets) = Len(gameState.bullets) + 1
               /\ SubSeq(gameState'.bullets, 1, Len(gameState.bullets))
                      = gameState.bullets
               /\ gameState'.score = gameState.score
          ELSE UNCHANGED <<gameState, bulletIdCounter>>]_vars

\* C6: reload sets ammo to exactly 30 from any ammo value and leaves score,
\* projectile list and hit states unchanged.
ReloadSetsFull ==
    [][ReloadInput =>
          /\ gameState'.ammo = MaxAmmo
          /\ gameState'.score = gameState.score
          /\ gameState'.bullets = gameState.bullets
          /\ hit' = hit]_vars

\* a reload has acted on a partly used magazine while projectiles are in flight
ReloadWitness ==
    /\ gameState.ammo = MaxAmmo
    /\ ShotsFired > 0
    /\ gameState.bullets # <<>>

\* C7: a mounted projectile has had its removal requested (it is gone from
\* the projectile list) exactly when its travel from its origin is strictly
\* greater than 100; at travel <= 100 it is still in the list.
ExpiredExactlyBeyondRange ==
    \A bullet \in Range(rendered.bullets) :
        (bullet.id \notin Ids(gameState.bullets)) <=> (Travel(bullet) > maxDistance)

\* one projectile at exactly the maximum range and still listed, another
\* beyond it and removed
RangeWitness ==
    \E b1, b2 \in Range(rendered.bullets) :
        /\ Travel(b1) = maxDistance
        /\ b1.id \in Ids(gameState.bullets)
        /\ Travel(b2) > maxDistance
        /\ b2.id \notin Ids(gameState.bullets)

\* C8: the ids in the projectile list are pairwise distinct, and a new
\* projectile's id is greater than every id assigned before it (all of which
\* are below the counter), also after removals.
UniqueIncreasingIds ==
    [][/\ \A i, j \in 1..Len(gameState'.bullets) :
              i # j => gameState'.bullets[i].id # gameState'.bullets[j].id
       /\ \A b \in Range(gameState'.bullets) : b.id < bulletIdCounter'
       /\ bulletIdCounter' >= bulletIdCounter
       /\ \A b \in Range(gameState'.bullets) :
              b.id \notin Ids(gameState.bullets) => b.id >= bulletIdCounter]_vars

\* the only listed projectile is the latest one; an earlier one was removed
IdsWitness ==
    /\ ShotsFired >= 2
    /\ Len(gameState.bullets) = 1
    /\ gameState.bullets[1].id = bulletIdCounter - 1
    /\ rendered.bullets = gameState.bullets

\* C9: the removal requests of a frame remove exactly the projectiles they
\* name, keeping the others in order; a request for an id that is no longer
\* listed changes nothing.
RemovalExact ==
    [][\A delta \in Deltas :
          Bullet_useFrame(delta) =>
              LET requested == {b.id : b \in {x \in Range(rendered.bullets) :
                                    Distance(meshPos'[x.id], x.position) > maxDistance}}
              IN  /\ gameState'.bullets =
                         SelectSeq(gameState.bullets, LAMBDA b : b.id \notin requested)
                  /\ gameState'.score = gameState.score
                  /\ gameState'.ammo = gameState.ammo
                  /\ requested \cap Ids(gameState.bullets) = {}
                         => gameState' = gameState]_vars

\* a mounted projectile was already out of range before the last frame, so
\* its removal was requested again, and the list still holds a projectile
RepeatedRemovalWitness ==
    /\ gameState.bullets # <<>>
    /\ \E bullet \in Range(rendered.bullets) :
           /\ bullet.id \notin Ids(gameState.bullets)
           /\ Travel(bullet) > maxDistance + speed * MaxDelta

====
